---- MODULE Spec2Model ----
(***************************************************************************)
(* A model of the polars translations in the pandas-to-polars cookbook.    *)
(* Each chapter is a script of cells run top to bottom; the model keeps    *)
(* the frames the cells bind and the files they read and write.            *)
(*                                                                         *)
(* A string is a sequence of one-character strings, a frame is a sequence  *)
(* of columns [name, vals], a value is Null or Str(s) / Bool(b).           *)
(***************************************************************************)
EXTENDS Integers, Sequences, FiniteSets, TLC

VARIABLES csv_zip,      \* chapter 7: the "Incident Zip" fields of the CSV file
          pl_requests,  \* chapter 7: the frame bound to pl_requests
          pc7,          \* chapter 7: the last cell that ran
          downloaded,          \* chapter 5: the frame the monthly URL returns
          pl_weather_mar2012,  \* chapter 5: the frame bound to pl_weather_mar2012
          weather_data_clean,  \* chapter 5: what pl_clean_data returned
          pc5,                 \* chapter 5: the last cell that ran
          popcon_file,       \* chapter 8: the lines of the file after its first
          pl_popcon_sliced,  \* chapter 8: what the read with [:-1] bound to pl_popcon
          nr_rows,           \* chapter 8: the row count from scan_csv
          pl_popcon,         \* chapter 8: the frame bound to pl_popcon
          pl_nonlibraries,   \* chapter 8: the frame bound to pl_nonlibraries
          pc8,               \* chapter 8: the last cell that ran
          fs,       \* files: what each file of ../data holds
          running,  \* files: the chapter being run, 0 when none is
          ip,       \* files: the next call of the running chapter's script
          reads,    \* files: every read so far, with the content it saw
          writes,   \* files: every write so far
          run,      \* files: the latest run: its chapter, the calls that
                    \* returned, and the call that raised (0 when none did)
          csv_complaints,  \* chapter 3: the rows of the CSV file
          complaints,      \* chapter 3: the pandas frame bound to complaints
          pl_complaints,   \* chapter 3: the polars frame bound to pl_complaints
          is_noise,        \* chapter 3: what the name is_noise is bound to
          in_brooklyn,     \* chapter 3: what the name in_brooklyn is bound to
          selected,        \* chapter 3: what the latest selection evaluated to
          uses,            \* chapter 3: every use of the two names so far
          pc3              \* chapter 3: the next statement, 0 when the run is over

zipVars == <<csv_zip, pl_requests, pc7>>
weatherVars == <<downloaded, pl_weather_mar2012, weather_data_clean, pc5>>
popconVars == <<popcon_file, pl_popcon_sliced, nr_rows, pl_popcon, pl_nonlibraries, pc8>>
fileVars == <<fs, running, ip, reads, writes, run>>
noiseVars == <<csv_complaints, complaints, pl_complaints, is_noise, in_brooklyn, selected, uses, pc3>>
vars == <<zipVars, weatherVars, popconVars, fileVars, noiseVars>>

\* what an action of one chapter leaves alone
notZip == <<weatherVars, popconVars, fileVars, noiseVars>>
notWeather == <<zipVars, popconVars, fileVars, noiseVars>>
notPopcon == <<zipVars, weatherVars, fileVars, noiseVars>>
notFiles == <<zipVars, weatherVars, popconVars, noiseVars>>
notNoise == <<zipVars, weatherVars, popconVars, fileVars>>

\* ---------------------------------------------------------------- bounds
MaxRows == 2

\* ---------------------------------------------------------------- values
Null == [null |-> TRUE, s |-> <<>>]
Str(s) == [null |-> FALSE, s |-> s]
Bool(b) == [null |-> FALSE, s |-> b]

NoFrame == <<>>

\* an operation returns a frame or raises
Ok(frame) == [ok |-> TRUE, frame |-> frame]
Raised == [ok |-> FALSE, frame |-> <<>>]

\* a chapter that is not run
ZipIdle ==
    /\ csv_zip = <<>>
    /\ pl_requests = NoFrame
    /\ pc7 = "idle"

WeatherIdle ==
    /\ downloaded = NoFrame
    /\ pl_weather_mar2012 = NoFrame
    /\ weather_data_clean = Raised
    /\ pc5 = "idle"

PopconIdle ==
    /\ popcon_file = <<>>
    /\ pl_popcon_sliced = NoFrame
    /\ nr_rows = 0
    /\ pl_popcon = NoFrame
    /\ pl_nonlibraries = NoFrame
    /\ pc8 = "idle"

FilesIdle ==
    /\ fs = <<>>
    /\ running = 0
    /\ ip = 0
    /\ reads = {}
    /\ writes = {}
    /\ run = <<>>

\* a name that is bound to nothing yet
Unbound == [lib |-> "none", mask |-> <<>>, expr |-> <<>>]

NoiseIdle ==
    /\ csv_complaints = <<>>
    /\ complaints = NoFrame
    /\ pl_complaints = NoFrame
    /\ is_noise = Unbound
    /\ in_brooklyn = Unbound
    /\ selected = Raised
    /\ uses = {}
    /\ pc3 = 0

Min(a, b) == IF a < b THEN a ELSE b

SeqsUpTo(S, n) == UNION {[1..k -> S] : k \in 0..n}

\* ---------------------------------------------------------------- frames
Columns(data) == [i \in 1..Len(data) |-> data[i].name]

HasColumn(data, name) == \E i \in 1..Len(data) : data[i].name = name

Col(data, name) == data[CHOOSE i \in 1..Len(data) : data[i].name = name].vals

\* DataFrame.with_columns(name=vals): a column of that name is replaced in
\* place, a new name is appended on the right.
WithColumns(data, name, vals) ==
    IF HasColumn(data, name)
    THEN [i \in 1..Len(data) |->
            IF data[i].name = name THEN [name |-> name, vals |-> vals] ELSE data[i]]
    ELSE Append(data, [name |-> name, vals |-> vals])

\* ---------------------------------------------------------------- string expressions
\* a slice that ends one character late (a faulty variant of StrSlice)
StrSliceTooLong(vals, offset, length) ==
    [i \in 1..Len(vals) |->
        IF vals[i].null THEN Null
        ELSE Str(SubSeq(vals[i].s, offset + 1, Min(Len(vals[i].s), offset + length + 1)))]

\* Expr.str.slice(offset, length): null stays null.
StrSlice(vals, offset, length) ==
    [i \in 1..Len(vals) |->
        IF vals[i].null THEN Null
        ELSE Str(SubSeq(vals[i].s, offset + 1, Min(Len(vals[i].s), offset + length)))]

\* substring test on two strings
Contains(s, sub) ==
    \E k \in 0..(Len(s) - Len(sub)) : SubSeq(s, k + 1, k + Len(sub)) = sub

\* Expr.str.contains(literal): null stays null.
StrContains(vals, sub) ==
    [i \in 1..Len(vals) |->
        IF vals[i].null THEN Null ELSE Bool(Contains(vals[i].s, sub))]

\* Expr == literal: null compares to null.
EqLit(vals, lit) ==
    [i \in 1..Len(vals) |->
        IF vals[i].null THEN Null ELSE Bool(vals[i].s = lit)]

\* pl.when(cond).then(None).otherwise(other): a null condition takes the
\* otherwise branch.
WhenThenNoneOtherwise(cond, other) ==
    [i \in 1..Len(cond) |->
        IF (~cond[i].null) /\ cond[i].s THEN Null ELSE other[i]]

\* ---------------------------------------------------------------- chapter 7
IncidentZip == <<"I","n","c","i","d","e","n","t"," ","Z","i","p">>

NO_CLUE == <<"N","O"," ","C","L","U","E">>
N_A == <<"N","/","A">>
ZERO == <<"0">>
na_values == {NO_CLUE, N_A, ZERO}

ZEROS5 == <<"0","0","0","0","0">>
DASH == <<"-">>

\* the fields the "Incident Zip" column of the file may hold
ZipFields ==
    { <<>>, ZERO, N_A, NO_CLUE, ZEROS5,
      <<"0","0","0","0","0","-","0","0","0","0">>,
      <<"8","3">>,
      <<"7","7","0","5","6">>,
      <<"2","9","6","1","6","-","0","7","5","9">> }

\* a field is null when it contains a null value (a faulty variant of IsNullField)
IsNullFieldSubstring(field, null_values) ==
    field = <<>> \/ \E n \in null_values : Contains(field, n)

\* read_csv(null_values=...): a field is null when it is empty or is one of
\* the null_values; every other field is kept as the string it is.
IsNullField(field, null_values) ==
    field = <<>> \/ field \in null_values

ReadCsv(fields, null_values) ==
    << [name |-> IncidentZip,
        vals |-> [i \in 1..Len(fields) |->
                    IF IsNullField(fields[i], null_values) THEN Null
                    ELSE Str(fields[i])]] >>

ZipInit ==
    /\ csv_zip \in SeqsUpTo(ZipFields, MaxRows)
    /\ pl_requests = NoFrame
    /\ pc7 = "start"
    /\ WeatherIdle
    /\ PopconIdle
    /\ FilesIdle
    /\ NoiseIdle

\* pl_requests = pl.read_csv(DATA_PATH, infer_schema_length=0)
LoadUnicode ==
    /\ pc7 = "start"
    /\ pl_requests' = ReadCsv(csv_zip, {})
    /\ pc7' = "unicode"
    /\ UNCHANGED <<csv_zip, notZip>>

\* pl_requests = pl.read_csv(DATA_PATH, null_values=na_values, dtypes=...)
LoadNaValues ==
    /\ pc7 = "unicode"
    /\ pl_requests' = ReadCsv(csv_zip, na_values)
    /\ pc7' = "loaded"
    /\ UNCHANGED <<csv_zip, notZip>>

RowsWithDashes == <<"r","o","w","s","_","w","i","t","h","_","d","a","s","h","e","s">>

\* pl_requests.with_columns(rows_with_dashes=pl.col("Incident Zip").str.contains("-"))
DashCell ==
    /\ pc7 = "loaded"
    /\ pl_requests' = WithColumns(pl_requests, RowsWithDashes,
                                  StrContains(Col(pl_requests, IncidentZip), DASH))
    /\ pc7' = "dashes"
    /\ UNCHANGED <<csv_zip, notZip>>

\* pl_requests.with_columns(pl.col("Incident Zip").str.slice(0, 5)): the
\* expression keeps the name of its root column.
TruncateCell ==
    /\ pc7 = "dashes"
    /\ pl_requests' = WithColumns(pl_requests, IncidentZip,
                                  StrSlice(Col(pl_requests, IncidentZip), 0, 5))
    /\ pc7' = "truncated"
    /\ UNCHANGED <<csv_zip, notZip>>

\* pl.when(pl.col("Incident Zip") == "00000").then(None)
\*   .otherwise(pl.col("Incident Zip")).alias("Incident Zip")
ZeroZipCell ==
    /\ pc7 = "truncated"
    /\ pl_requests' =
         WithColumns(pl_requests, IncidentZip,
                     WhenThenNoneOtherwise(EqLit(Col(pl_requests, IncidentZip), ZEROS5),
                                           Col(pl_requests, IncidentZip)))
    /\ pc7' = "zeroed"
    /\ UNCHANGED <<csv_zip, notZip>>

\* the keyword of with_columns(zip_column=...) names the output column
ZipColumnKeyword == <<"z","i","p","_","c","o","l","u","m","n">>

\* def pl_fix_zip_codes(data, zip_column): both with_columns calls are given
\* the keyword zip_column, so both write the column named "zip_column"; the
\* string given to otherwise() is read as a column name.
pl_fix_zip_codes(data, zip_column) ==
    LET sliced == WithColumns(data, ZipColumnKeyword,
                              StrSlice(Col(data, zip_column), 0, 5))
    IN  WithColumns(sliced, ZipColumnKeyword,
                    WhenThenNoneOtherwise(EqLit(Col(sliced, zip_column), ZEROS5),
                                          Col(sliced, zip_column)))

\* pl_requests = pl.read_csv(...); pl_requests = pl_fix_zip_codes(pl_requests, "Incident Zip")
FixZipCodesCell ==
    /\ pc7 = "zeroed"
    /\ pl_requests' = pl_fix_zip_codes(ReadCsv(csv_zip, na_values), IncidentZip)
    /\ pc7' = "fixed"
    /\ UNCHANGED <<csv_zip, notZip>>

ZipNext ==
    \/ LoadUnicode
    \/ LoadNaValues
    \/ DashCell
    \/ TruncateCell
    \/ ZeroZipCell
    \/ FixZipCodesCell

SpecZip == ZipInit /\ [][ZipNext]_vars

\* ---------------------------------------------------------------- chapter 7 claims
First5(s) == SubSeq(s, 1, Min(5, Len(s)))

\* what the load with na_values gave for "Incident Zip"
LoadedZips == Col(ReadCsv(csv_zip, na_values), IncidentZip)

CurrentZips == Col(pl_requests, IncidentZip)

\* C1: after pl_fix_zip_codes(data, "Incident Zip") every non-missing value
\* of column "Incident Zip" of the returned frame has at most 5 characters
\* and is the first 5 characters of the original value.
C1_FixTruncatesZipColumn ==
    pc7 = "fixed" =>
        \A i \in 1..Len(CurrentZips) :
            ~CurrentZips[i].null =>
                /\ Len(CurrentZips[i].s) <= 5
                /\ CurrentZips[i].s = First5(LoadedZips[i].s)

\* C2: after pl_fix_zip_codes(data, "Incident Zip") no value of column
\* "Incident Zip" is "00000": a value whose truncated form is "00000" is
\* missing.
C2_FixNullsZeroZips ==
    pc7 = "fixed" =>
        \A i \in 1..Len(CurrentZips) :
            /\ CurrentZips[i] # Str(ZEROS5)
            /\ (~LoadedZips[i].null /\ First5(LoadedZips[i].s) = ZEROS5)
                  => CurrentZips[i].null

\* C3: once the truncation cell and the zero-zip cell have run, every
\* non-missing "Incident Zip" has at most 5 characters and is not "00000",
\* what was missing is still missing, and every other value is the first 5
\* characters of what was loaded.
C3_StepwiseCleanup ==
    pc7 = "zeroed" =>
        /\ Len(CurrentZips) = Len(LoadedZips)
        /\ \A i \in 1..Len(CurrentZips) :
            /\ LoadedZips[i].null => CurrentZips[i].null
            /\ ~CurrentZips[i].null =>
                  /\ Len(CurrentZips[i].s) <= 5
                  /\ CurrentZips[i].s # ZEROS5
            /\ (~LoadedZips[i].null /\ First5(LoadedZips[i].s) # ZEROS5)
                  => CurrentZips[i] = Str(First5(LoadedZips[i].s))

\* a long zip code was cut and a zip code that truncates to "00000" was nulled
C3_Witness ==
    /\ pc7 = "zeroed"
    /\ \E i \in 1..Len(csv_zip) :
          /\ Len(csv_zip[i]) > 5
          /\ ~CurrentZips[i].null
          /\ Len(CurrentZips[i].s) = 5
    /\ \E i \in 1..Len(csv_zip) :
          /\ Len(csv_zip[i]) > 5
          /\ First5(csv_zip[i]) = ZEROS5
          /\ CurrentZips[i].null

\* C4: after the load with na_values no "Incident Zip" is "NO CLUE", "N/A"
\* or "0" (such a field is missing), and a field that only contains a
\* sentinel, such as "00000", is loaded as it is.
C4_SentinelsBecomeNull ==
    pc7 = "loaded" =>
        \A i \in 1..Len(csv_zip) :
            /\ csv_zip[i] \in na_values => CurrentZips[i].null
            /\ ~CurrentZips[i].null => CurrentZips[i].s \notin na_values
            /\ (csv_zip[i] # <<>> /\ csv_zip[i] \notin na_values)
                  => CurrentZips[i] = Str(csv_zip[i])

\* the file holds the sentinel "0" and the field "00000" that contains it
C4_Witness ==
    /\ pc7 = "loaded"
    /\ \E i \in 1..Len(csv_zip) : csv_zip[i] = ZERO /\ CurrentZips[i].null
    /\ \E i \in 1..Len(csv_zip) : csv_zip[i] = ZEROS5 /\ CurrentZips[i] = Str(ZEROS5)

\* ---------------------------------------------------------------- chapter 5
\* Column names are strings too; the degree sign is the one character "deg".
\* "Longitude (x)"
LongitudeX == <<"L","o","n","g","i","t","u","d","e"," ","(","x",")">>

\* "Latitude (y)"
LatitudeY == <<"L","a","t","i","t","u","d","e"," ","(","y",")">>

\* "Station Name"
StationName == <<"S","t","a","t","i","o","n"," ","N","a","m","e">>

\* "Climate ID"
ClimateID == <<"C","l","i","m","a","t","e"," ","I","D">>

\* "Date/Time (LST)"
DateTimeLST == <<"D","a","t","e","/","T","i","m","e"," ","(","L","S","T",")">>

\* "Year"
Year == <<"Y","e","a","r">>

\* "Month"
Month == <<"M","o","n","t","h">>

\* "Day"
Day == <<"D","a","y">>

\* "Time (LST)"
TimeLST == <<"T","i","m","e"," ","(","L","S","T",")">>

\* "Temp ([deg]C)"
TempC == <<"T","e","m","p"," ","(","deg","C",")">>

\* "Temp Flag"
TempFlag == <<"T","e","m","p"," ","F","l","a","g">>

\* "Dew Point Temp ([deg]C)"
DewPointTempC == <<"D","e","w"," ","P","o","i","n","t"," ","T","e","m","p"," ","(","deg","C",")">>

\* "Rel Hum (%)"
RelHum == <<"R","e","l"," ","H","u","m"," ","(","%",")">>

\* "Wind Dir (10s deg)"
WindDir == <<"W","i","n","d"," ","D","i","r"," ","(","1","0","s"," ","d","e","g",")">>

\* "Wind Spd (km/h)"
WindSpd == <<"W","i","n","d"," ","S","p","d"," ","(","k","m","/","h",")">>

\* "Visibility (km)"
VisibilityKm == <<"V","i","s","i","b","i","l","i","t","y"," ","(","k","m",")">>

\* "Stn Press (kPa)"
StnPress == <<"S","t","n"," ","P","r","e","s","s"," ","(","k","P","a",")">>

\* "Weather"
Weather == <<"W","e","a","t","h","e","r">>

\* "Longitude"
Longitude == <<"L","o","n","g","i","t","u","d","e">>

\* "Latitude"
Latitude == <<"L","a","t","i","t","u","d","e">>

\* "Station_Name"
Station_Name == <<"S","t","a","t","i","o","n","_","N","a","m","e">>

\* "Climate_ID"
Climate_ID == <<"C","l","i","m","a","t","e","_","I","D">>

\* "Date_Time"
Date_Time == <<"D","a","t","e","_","T","i","m","e">>

\* "Temperature_C"
Temperature_C == <<"T","e","m","p","e","r","a","t","u","r","e","_","C">>

\* "Dew_Point_Temp_C"
Dew_Point_Temp_C == <<"D","e","w","_","P","o","i","n","t","_","T","e","m","p","_","C">>

\* "Relative_Humidity"
Relative_Humidity == <<"R","e","l","a","t","i","v","e","_","H","u","m","i","d","i","t","y">>

\* "Wind_Speed_kmh"
Wind_Speed_kmh == <<"W","i","n","d","_","S","p","e","e","d","_","k","m","h">>

\* "Visibility_km"
Visibility_km == <<"V","i","s","i","b","i","l","i","t","y","_","k","m">>

\* "Station_Pressure_kPa"
Station_Pressure_kPa == <<"S","t","a","t","i","o","n","_","P","r","e","s","s","u","r","e","_","k","P","a">>

\* the byte order mark read as latin-1, then a double quote
BomQuote == <<"i_uml","raquo","iquest","\"">>

\* A with circumflex
ACirc == <<"A_circ">>

\* the empty string
EmptyStr == <<>>

\* the header of a monthly download
RawColumns ==
    << LongitudeX, LatitudeY, StationName, ClimateID, DateTimeLST, Year, Month,
       Day, TimeLST, TempC, TempFlag, DewPointTempC, RelHum, WindDir, WindSpd,
       VisibilityKm, StnPress, Weather >>

\* the columns of a download in which a field may be empty; the station's
\* coordinates and names and the timestamps are filled on every row
NullableColumns == {Year, TempFlag, WindDir, Weather}

Value == Str(<<"v">>)

\* the monthly frame of h rows over RawColumns with the nulls of mask
RawFrame(h, mask) ==
    [i \in 1..Len(RawColumns) |->
        [name |-> RawColumns[i],
         vals |-> [r \in 1..h |->
                     IF RawColumns[i] \in NullableColumns /\ mask[RawColumns[i]][r]
                     THEN Null ELSE Value]]]

\* Series.null_count()
NullCount(vals) == Cardinality({r \in 1..Len(vals) : vals[r].null})

\* DataFrame.drop(names): the named columns are removed, the others keep
\* their order; a name that is no column raises.
DropRaises(data, names) == \E n \in names : ~HasColumn(data, n)

Drop(data, names) == SelectSeq(data, LAMBDA c : c.name \notin names)

\* str.replace(old, new): every occurrence, left to right
RECURSIVE Replace(_, _, _)
Replace(s, old, new) ==
    IF old = <<>> \/ Len(s) < Len(old) THEN s
    ELSE IF SubSeq(s, 1, Len(old)) = old
         THEN new \o Replace(SubSeq(s, Len(old) + 1, Len(s)), old, new)
         ELSE <<Head(s)>> \o Replace(Tail(s), old, new)

\* rename({col: col.replace(old, new) for col in data.columns})
ReplaceInColumns(data, old, new) ==
    [i \in 1..Len(data) |->
        [name |-> Replace(data[i].name, old, new), vals |-> data[i].vals]]

\* DataFrame.rename(mapping): a key that is no column raises.
RenameRaises(data, mapping) ==
    \E k \in 1..Len(mapping) : ~HasColumn(data, mapping[k][1])

Rename(data, mapping) ==
    [i \in 1..Len(data) |->
        IF \E k \in 1..Len(mapping) : mapping[k][1] = data[i].name
        THEN [name |-> mapping[CHOOSE k \in 1..Len(mapping) :
                                  mapping[k][1] = data[i].name][2],
              vals |-> data[i].vals]
        ELSE data[i]]

\* str.lower()
UpperChars ==
    << "A","B","C","D","E","F","G","H","I","J","K","L","M","N","O","P","Q",
       "R","S","T","U","V","W","X","Y","Z","A_circ" >>

LowerChars ==
    << "a","b","c","d","e","f","g","h","i","j","k","l","m","n","o","p","q",
       "r","s","t","u","v","w","x","y","z","a_circ" >>

LowerChar(c) ==
    IF \E k \in 1..Len(UpperChars) : UpperChars[k] = c
    THEN LowerChars[CHOOSE k \in 1..Len(UpperChars) : UpperChars[k] = c]
    ELSE c

Lower(s) == [i \in 1..Len(s) |-> LowerChar(s[i])]

\* data.columns = [col.lower() for col in data.columns]
SetColumnsLower(data) ==
    [i \in 1..Len(data) |-> [name |-> Lower(data[i].name), vals |-> data[i].vals]]

\* ["Year", "Month", "Day", "Time (LST)"]
DroppedColumns == {Year, Month, Day, TimeLST}

\* the mapping of both manual renames
RenameMapping ==
    << <<LongitudeX, Longitude>>,
       <<LatitudeY, Latitude>>,
       <<StationName, Station_Name>>,
       <<ClimateID, Climate_ID>>,
       <<DateTimeLST, Date_Time>>,
       <<TempC, Temperature_C>>,
       <<DewPointTempC, Dew_Point_Temp_C>>,
       <<RelHum, Relative_Humidity>>,
       <<WindSpd, Wind_Speed_kmh>>,
       <<VisibilityKm, Visibility_km>>,
       <<StnPress, Station_Pressure_kPa>>,
       <<Weather, Weather>> >>

\* null_columns = [col for col in pl_weather_mar2012.columns
\*                 if pl_weather_mar2012[col].null_count() > 0]
null_columns(data) ==
    {data[i].name : i \in {j \in 1..Len(data) : NullCount(data[j].vals) > 0}}

\* dropna(how="all"): only the columns that are all null go (a faulty variant)
drop_all_null_columns(data) ==
    Drop(data, {data[i].name : i \in {j \in 1..Len(data) :
                    NullCount(data[j].vals) = Len(data[j].vals)}})

\* def drop_null_columns(data)
drop_null_columns(data) ==
    Drop(data, {data[i].name : i \in {j \in 1..Len(data) :
                    NullCount(data[j].vals) > 0}})

\* def pl_clean_data(data): what it returns.  Its last statement before the
\* return assigns the lower-cased names to the global pl_weather_mar2012,
\* not to data.
pl_clean_data(data) ==
    LET nonull == drop_null_columns(data)
    IN  IF DropRaises(nonull, DroppedColumns) THEN Raised
        ELSE LET dropped == Drop(nonull, DroppedColumns)
             IN  IF RenameRaises(dropped, RenameMapping) THEN Raised
                 ELSE Ok(Rename(dropped, RenameMapping))

WeatherInit ==
    /\ \E h \in 1..MaxRows : \E mask \in [NullableColumns -> [1..h -> BOOLEAN]] :
          downloaded = RawFrame(h, mask)
    /\ pl_weather_mar2012 = NoFrame
    /\ weather_data_clean = Raised
    /\ pc5 = "start"
    /\ ZipIdle
    /\ PopconIdle
    /\ FilesIdle
    /\ NoiseIdle

\* pl_weather_mar2012 = pl.read_csv(url_march, try_parse_dates=True, null_values=[""])
DownloadMarch ==
    /\ pc5 = "start"
    /\ pl_weather_mar2012' = downloaded
    /\ pc5' = "read"
    /\ UNCHANGED <<downloaded, weather_data_clean, notWeather>>

\* pl_weather_mar2012 = pl_weather_mar2012.drop(null_columns)
NullColumnsCell ==
    /\ pc5 = "read"
    /\ pl_weather_mar2012' = Drop(pl_weather_mar2012, null_columns(pl_weather_mar2012))
    /\ pc5' = "nonull"
    /\ UNCHANGED <<downloaded, weather_data_clean, notWeather>>

\* pl_weather_mar2012 = pl_weather_mar2012.drop(["Year", "Month", "Day", "Time (LST)"])
DropCell ==
    /\ pc5 = "nonull"
    /\ IF DropRaises(pl_weather_mar2012, DroppedColumns)
       THEN pc5' = "raised" /\ UNCHANGED pl_weather_mar2012
       ELSE /\ pl_weather_mar2012' = Drop(pl_weather_mar2012, DroppedColumns)
            /\ pc5' = "dropped"
    /\ UNCHANGED <<downloaded, weather_data_clean, notWeather>>

\* the two renames that remove the mis-decoded characters
ReplaceCell ==
    /\ pc5 = "dropped"
    /\ pl_weather_mar2012' =
         ReplaceInColumns(ReplaceInColumns(pl_weather_mar2012, BomQuote, EmptyStr),
                          ACirc, EmptyStr)
    /\ pc5' = "replaced"
    /\ UNCHANGED <<downloaded, weather_data_clean, notWeather>>

\* the manual rename, then pl_weather_mar2012.columns = [col.lower() ...]
RenameLowerCell ==
    /\ pc5 = "replaced"
    /\ IF RenameRaises(pl_weather_mar2012, RenameMapping)
       THEN pc5' = "raised" /\ UNCHANGED pl_weather_mar2012
       ELSE /\ pl_weather_mar2012' =
                 SetColumnsLower(Rename(pl_weather_mar2012, RenameMapping))
            /\ pc5' = "renamed"
    /\ UNCHANGED <<downloaded, weather_data_clean, notWeather>>

\* weather_data_clean = pl_clean_data(weather_data) on the same download:
\* the function lower-cases the global's names when it gets to its last
\* statement, and returns data.
CleanDataCall ==
    /\ pc5 = "renamed"
    /\ weather_data_clean' = pl_clean_data(downloaded)
    /\ IF pl_clean_data(downloaded).ok
       THEN /\ pl_weather_mar2012' = SetColumnsLower(pl_weather_mar2012)
            /\ pc5' = "cleaned"
       ELSE pc5' = "raised" /\ UNCHANGED pl_weather_mar2012
    /\ UNCHANGED <<downloaded, notWeather>>

WeatherNext ==
    \/ DownloadMarch
    \/ NullColumnsCell
    \/ DropCell
    \/ ReplaceCell
    \/ RenameLowerCell
    \/ CleanDataCall

SpecWeather == WeatherInit /\ [][WeatherNext]_vars

\* ---------------------------------------------------------------- chapter 5 claims
IsLowerCase(name) ==
    \A i \in 1..Len(name) : \A k \in 1..Len(UpperChars) : name[i] # UpperChars[k]

HasNull(column) == \E r \in 1..Len(column.vals) : column.vals[r].null

IndexOfColumn(data, name) == CHOOSE j \in 1..Len(data) : data[j].name = name

\* result is data without the columns that hold a null: the kept columns
\* are whole and in their original order
KeepsExactlyNullFreeColumns(data, result) ==
    /\ \A i \in 1..Len(result) :
          /\ ~HasNull(result[i])
          /\ \E j \in 1..Len(data) : data[j] = result[i]
    /\ \A j \in 1..Len(data) :
          IF HasNull(data[j])
          THEN ~HasColumn(result, data[j].name)
          ELSE \E i \in 1..Len(result) : result[i] = data[j]
    /\ \A i1, i2 \in 1..Len(result) :
          i1 < i2 => IndexOfColumn(data, result[i1].name)
                       < IndexOfColumn(data, result[i2].name)

\* C5: pl_clean_data(data) returns the frame the step-by-step cells produce
\* from the same download; in particular every column name of the returned
\* frame is lower case.
C5_CleanDataMatchesCells ==
    pc5 = "cleaned" =>
        /\ weather_data_clean.ok
        /\ weather_data_clean.frame = pl_weather_mar2012
        /\ \A i \in 1..Len(weather_data_clean.frame) :
              IsLowerCase(weather_data_clean.frame[i].name)

\* C6: drop_null_columns(data), and the cell for March 2012, drop a column
\* if and only if it holds a null: the result is the null-free columns of
\* data, in their order, with their rows.
C6_DropNullColumns ==
    /\ pc5 = "nonull" => KeepsExactlyNullFreeColumns(downloaded, pl_weather_mar2012)
    /\ pc5 # "idle" =>
          KeepsExactlyNullFreeColumns(downloaded, drop_null_columns(downloaded))
    /\ (pc5 = "cleaned" /\ weather_data_clean.ok) =>
          \A i \in 1..Len(weather_data_clean.frame) :
              ~HasNull(weather_data_clean.frame[i])

\* a column with one null among its values was dropped, a nullable column
\* without a null was kept
C6_Witness ==
    /\ pc5 = "nonull"
    /\ \E j \in 1..Len(downloaded) :
          /\ HasNull(downloaded[j])
          /\ \E r \in 1..Len(downloaded[j].vals) : ~downloaded[j].vals[r].null
          /\ ~HasColumn(pl_weather_mar2012, downloaded[j].name)
    /\ \E j \in 1..Len(downloaded) :
          /\ downloaded[j].name \in NullableColumns
          /\ HasColumn(pl_weather_mar2012, downloaded[j].name)

\* ---------------------------------------------------------------- 64-bit integers
\* An Int64 is four 16-bit limbs, least significant first, in two's
\* complement; the same operators work on five limbs (80 bits), which hold
\* every product of an Int64 and 1000 exactly.
LimbBits == 16
Base == 2 ^ LimbBits

\* x * k + carry on the limbs of x; the carry out of the last limb is dropped
RECURSIVE MulLimbs(_, _, _)
MulLimbs(x, k, carry) ==
    IF x = <<>> THEN <<>>
    ELSE LET p == Head(x) * k + carry
         IN  <<p % Base>> \o MulLimbs(Tail(x), k, p \div Base)

IsNegative(x) == x[Len(x)] >= Base \div 2

\* two's complement negation
Negate(x) == MulLimbs([i \in 1..Len(x) |-> (Base - 1) - x[i]], 1, 1)

\* a signed value in one more limb
SignExtend(x) == Append(x, IF IsNegative(x) THEN Base - 1 ELSE 0)

ZeroInt == <<0, 0, 0, 0>>

\* a < b on limbs of the same length, signed
RECURSIVE LessUnsigned(_, _)
LessUnsigned(a, b) ==
    IF a = <<>> THEN FALSE
    ELSE LET n == Len(a)
         IN  IF a[n] # b[n] THEN a[n] < b[n]
             ELSE LessUnsigned(SubSeq(a, 1, n - 1), SubSeq(b, 1, n - 1))

Less(a, b) ==
    IF IsNegative(a) # IsNegative(b) THEN IsNegative(a) ELSE LessUnsigned(a, b)

DigitChars == <<"0","1","2","3","4","5","6","7","8","9">>

DigitValue(c) == (CHOOSE k \in 1..10 : DigitChars[k] = c) - 1

\* the decimal digits as an 80-bit magnitude
RECURSIVE Magnitude(_, _)
Magnitude(digits, acc) ==
    IF digits = <<>> THEN acc
    ELSE Magnitude(Tail(digits), MulLimbs(acc, 10, DigitValue(Head(digits))))

\* the longest digit string the 80-bit magnitude holds without loss
MaxDigits == 19

\* cast(pl.Int64) of one string (strict): the Int64 it denotes, or no value
\* when it is no decimal integer or does not fit
ParseInt64(s) ==
    LET negative == s # <<>> /\ Head(s) = "-"
        digits == IF negative THEN Tail(s) ELSE s
        valid == /\ digits # <<>>
                 /\ Len(digits) <= MaxDigits
                 /\ \A i \in 1..Len(digits) : \E k \in 1..10 : DigitChars[k] = digits[i]
        mag == Magnitude(digits, <<0, 0, 0, 0, 0>>)
        low == SubSeq(mag, 1, 4)
        fits == /\ mag[5] = 0
                /\ \/ ~IsNegative(low)
                   \/ negative /\ low = <<0, 0, 0, Base \div 2>>
    IN  IF valid /\ fits
        THEN [ok |-> TRUE, val |-> IF negative THEN Negate(low) ELSE low]
        ELSE [ok |-> FALSE, val |-> ZeroInt]

\* ---------------------------------------------------------------- chapter 8
Int64(x) == [null |-> FALSE, s |-> x]

\* a Datetime("ms") value: milliseconds since 1970-01-01 00:00:00
DatetimeMs(x) == [null |-> FALSE, s |-> [ms |-> x]]

\* pl.datetime(year=1970, month=1, day=1)
Epoch == ZeroInt

Atime == <<"a","t","i","m","e">>
Ctime == <<"c","t","i","m","e">>
PackageName == <<"p","a","c","k","a","g","e","-","n","a","m","e">>
MruProgram == <<"m","r","u","-","p","r","o","g","r","a","m">>
Tag == <<"t","a","g">>
Lib == <<"l","i","b">>

\* the names assigned to pl_popcon.columns
PopconColumns == <<Atime, Ctime, PackageName, MruProgram, Tag>>

\* the five fields of the file's first line name the columns as read
HeaderColumns == << <<"h","1">>, <<"h","2">>, <<"h","3">>, <<"h","4">>, <<"h","5">> >>

\* one line of the file: five fields separated by a space
PopconRow(atime, ctime, package) ==
    <<atime, ctime, package, <<"-">>, <<"-">> >>

\* the file's last line, END-POPULARITY-CONTEST-0 TIME:...
FooterRow ==
    << <<"E","N","D">>, <<"T","I","M","E">>, <<>>, <<>>, <<>> >>

\* lines a popularity-contest file may hold
PopconRows ==
    { PopconRow(<<"0">>,
                <<"0">>,
                <<"l","i","b","c","6">>),
      PopconRow(<<"1">>,
                <<"1","3","8","7","2","9","5","7","9","7">>,
                <<"v","i","m">>),
      PopconRow(<<"1","3","8","7","2","9","5","7","9","7">>,
                <<"1","3","8","7","2","9","5","7","9","7">>,
                <<"l","i","b","c","6">>),
      PopconRow(<<"1","3","8","7","2","9","5","7","9","7">>,
                <<"0">>,
                <<"v","i","m">>),
      PopconRow(<<"9","2","2","3","3","7","2","0","3","6","8","5","4","7","7","5">>,
                <<"1">>,
                <<"v","i","m">>),
      PopconRow(<<"9","2","2","3","3","7","2","0","3","6","8","5","4","7","7","6">>,
                <<"1","3","8","7","2","9","5","7","9","7">>,
                <<"l","i","b","c","6">>),
      PopconRow(<<"9","2","2","3","3","7","2","0","3","6","8","5","4","7","7","5","8","0","7">>,
                <<"1">>,
                <<"v","i","m">>),
      PopconRow(<<"-","1">>,
                <<"1","3","8","7","2","9","5","7","9","7">>,
                <<"v","i","m">>),
      PopconRow(<<"1","8","4","4","6","7","4","4","0","7","3","7","0","9","5","5","2">>,
                <<"9","2","2","3","3","7","2","0","3","6","8","5","4","7","7","6">>,
                <<"l","i","b","c","6">>) }

\* the files: up to MaxRows package lines, then the footer line
PopconFiles == { body \o <<FooterRow>> : body \in SeqsUpTo(PopconRows, MaxRows) }

Height(data) == IF data = <<>> THEN 0 ELSE Len(data[1].vals)

\* pl.read_csv(DATA_PATH, separator=" ", infer_schema=0, n_rows=n): the
\* first n lines after the header, every column a string, an empty field
\* null.  n = -1 stands for no n_rows.
ReadPopcon(file, n) ==
    LET h == IF n = -1 THEN Len(file) ELSE Min(n, Len(file))
    IN  [c \in 1..Len(HeaderColumns) |->
            [name |-> HeaderColumns[c],
             vals |-> [r \in 1..h |->
                         IF file[r][c] = <<>> THEN Null ELSE Str(file[r][c])]]]

\* data[1:], the first row removed instead of the last (a faulty variant of SliceFrame)
SliceFromSecond(data, stop) ==
    [c \in 1..Len(data) |->
        [name |-> data[c].name, vals |-> SubSeq(data[c].vals, 2, Height(data))]]

\* data[:stop] with a negative stop: all rows but the last -stop
SliceFrame(data, stop) ==
    LET last == IF Height(data) + stop < 0 THEN 0 ELSE Height(data) + stop
    IN  [c \in 1..Len(data) |->
            [name |-> data[c].name, vals |-> SubSeq(data[c].vals, 1, last)]]

\* pl.scan_csv(...).select(pl.len()).collect().item()
ScanLen(file) == Len(file)

\* data.columns = names
SetColumns(data, names) ==
    [c \in 1..Len(data) |-> [name |-> names[c], vals |-> data[c].vals]]

\* the rows of data at the indices of keep, in their order
KeepRows(data, keep) ==
    LET idx == SelectSeq([r \in 1..Height(data) |-> r], LAMBDA r : keep[r])
    IN  [c \in 1..Len(data) |->
            [name |-> data[c].name,
             vals |-> [k \in 1..Len(idx) |-> data[c].vals[idx[k]]]]]

\* DataFrame.filter(mask): a row is kept when its mask is true, not when it
\* is false or null
Filter(data, mask) ==
    KeepRows(data, [r \in 1..Height(data) |-> (~mask[r].null) /\ mask[r].s])

\* pl.col(c).cast(pl.Int64) raises when a string is no Int64
CastInt64Raises(vals) ==
    \E r \in 1..Len(vals) : (~vals[r].null) /\ ~ParseInt64(vals[r].s).ok

CastInt64(vals) ==
    [r \in 1..Len(vals) |->
        IF vals[r].null THEN Null ELSE Int64(ParseInt64(vals[r].s).val)]

\* pl.col(c) * 1000 on Int64: the product modulo 2^64
TimesThousand(vals) ==
    [r \in 1..Len(vals) |->
        IF vals[r].null THEN Null ELSE Int64(MulLimbs(vals[r].s, 1000, 0))]

\* pl.col(c).cast(pl.Datetime("ms")): the integer is the milliseconds
CastDatetimeMs(vals) ==
    [r \in 1..Len(vals) |->
        IF vals[r].null THEN Null ELSE DatetimeMs(vals[r].s)]

\* >= in place of > (a faulty variant of GreaterThanDatetime)
GreaterOrEqualDatetime(vals, t) ==
    [r \in 1..Len(vals) |->
        IF vals[r].null THEN Null ELSE Bool(~Less(vals[r].s.ms, t))]

\* pl.col(c) > pl.datetime(...)
GreaterThanDatetime(vals, t) ==
    [r \in 1..Len(vals) |->
        IF vals[r].null THEN Null ELSE Bool(Less(t, vals[r].s.ms))]

\* ~expr
Not(vals) ==
    [r \in 1..Len(vals) |->
        IF vals[r].null THEN Null ELSE Bool(~vals[r].s)]

PopconInit ==
    /\ popcon_file \in PopconFiles
    /\ pl_popcon_sliced = NoFrame
    /\ nr_rows = 0
    /\ pl_popcon = NoFrame
    /\ pl_nonlibraries = NoFrame
    /\ pc8 = "start"
    /\ ZipIdle
    /\ WeatherIdle
    /\ FilesIdle
    /\ NoiseIdle

\* pl_popcon = pl.read_csv(DATA_PATH, separator=" ", infer_schema=0)[:-1]
ReadAllAndSlice ==
    /\ pc8 = "start"
    /\ pl_popcon' = SliceFrame(ReadPopcon(popcon_file, -1), -1)
    /\ pl_popcon_sliced' = pl_popcon'
    /\ pc8' = "sliced"
    /\ UNCHANGED <<popcon_file, nr_rows, pl_nonlibraries, notPopcon>>

\* nr_rows = pl.scan_csv(...).select(pl.len()).collect().item()
\* pl_popcon = pl.read_csv(..., n_rows=(nr_rows - 1)); a negative n_rows raises
ReadNRows ==
    /\ pc8 = "sliced"
    /\ nr_rows' = ScanLen(popcon_file)
    /\ IF nr_rows' - 1 < 0
       THEN pc8' = "raised" /\ UNCHANGED pl_popcon
       ELSE /\ pl_popcon' = ReadPopcon(popcon_file, nr_rows' - 1)
            /\ pc8' = "nrows"
    /\ UNCHANGED <<popcon_file, pl_popcon_sliced, pl_nonlibraries, notPopcon>>

\* pl_popcon.columns = ["atime", "ctime", "package-name", "mru-program", "tag"]
NameColumns ==
    /\ pc8 = "nrows"
    /\ pl_popcon' = SetColumns(pl_popcon, PopconColumns)
    /\ pc8' = "named"
    /\ UNCHANGED <<popcon_file, pl_popcon_sliced, nr_rows, pl_nonlibraries, notPopcon>>

\* with_columns(pl.col("atime").cast(pl.Int64), pl.col("ctime").cast(pl.Int64))
CastIntCell ==
    /\ pc8 = "named"
    /\ IF CastInt64Raises(Col(pl_popcon, Atime)) \/ CastInt64Raises(Col(pl_popcon, Ctime))
       THEN pc8' = "raised" /\ UNCHANGED pl_popcon
       ELSE /\ pl_popcon' =
                 WithColumns(WithColumns(pl_popcon, Atime, CastInt64(Col(pl_popcon, Atime))),
                             Ctime, CastInt64(Col(pl_popcon, Ctime)))
            /\ pc8' = "ints"
    /\ UNCHANGED <<popcon_file, pl_popcon_sliced, nr_rows, pl_nonlibraries, notPopcon>>

\* with_columns(pl.col("atime") * 1000, pl.col("ctime") * 1000), then
\* with_columns(pl.col("atime").cast(pl.Datetime("ms")), ... "ctime" ...)
ToDatetimeCell ==
    /\ pc8 = "ints"
    /\ LET millis ==
             WithColumns(WithColumns(pl_popcon, Atime, TimesThousand(Col(pl_popcon, Atime))),
                         Ctime, TimesThousand(Col(pl_popcon, Ctime)))
       IN  pl_popcon' =
             WithColumns(WithColumns(millis, Atime, CastDatetimeMs(Col(millis, Atime))),
                         Ctime, CastDatetimeMs(Col(millis, Ctime)))
    /\ pc8' = "datetimes"
    /\ UNCHANGED <<popcon_file, pl_popcon_sliced, nr_rows, pl_nonlibraries, notPopcon>>

\* pl_popcon = pl_popcon.filter(pl.col("atime") > pl.datetime(1970, 1, 1))
\* pl_nonlibraries = pl_popcon.filter(~pl.col("package-name").str.contains("lib"))
FilterCell ==
    /\ pc8 = "datetimes"
    /\ pl_popcon' = Filter(pl_popcon, GreaterThanDatetime(Col(pl_popcon, Atime), Epoch))
    /\ pl_nonlibraries' =
         Filter(pl_popcon', Not(StrContains(Col(pl_popcon', PackageName), Lib)))
    /\ pc8' = "filtered"
    /\ UNCHANGED <<popcon_file, pl_popcon_sliced, nr_rows, notPopcon>>

PopconNext ==
    \/ ReadAllAndSlice
    \/ ReadNRows
    \/ NameColumns
    \/ CastIntCell
    \/ ToDatetimeCell
    \/ FilterCell

SpecPopcon == PopconInit /\ [][PopconNext]_vars

\* ---------------------------------------------------------------- chapter 8 claims
\* the lines of the file before its last
DataRows == SubSeq(popcon_file, 1, Len(popcon_file) - 1)

\* the seconds a field of the file denotes
SecondsOf(field) == ParseInt64(field).val

\* 1000 * s in 80 bits, where no product of an Int64 overflows
ExactMillis(s) == MulLimbs(SignExtend(s), 1000, 0)

\* value is the instant s seconds after 1970-01-01 00:00:00
IsInstant(value, s) ==
    (~value.null) /\ SignExtend(value.s.ms) = ExactMillis(s)

\* 9223372036854775, the largest s with 1000 * s < 2^63
MaxSafeSeconds == ParseInt64(<<"9","2","2","3","3","7","2","0","3","6","8","5","4","7","7","5">>).val

Safe(s) == ~Less(MaxSafeSeconds, s) /\ ~Less(s, Negate(MaxSafeSeconds))

\* the index sequence of the rows keep selects
KeptIndices(keep) == SelectSeq([r \in 1..Len(DataRows) |-> r], LAMBDA r : keep[r])

\* pl_popcon holds the rows keep selects, in file order, with the instants
\* of their seconds wherever exact(s) is asked for
HoldsRows(keep, exact(_)) ==
    LET idx == KeptIndices(keep)
    IN  /\ Height(pl_popcon) = Len(idx)
        /\ \A k \in 1..Len(idx) :
              /\ Col(pl_popcon, PackageName)[k] = Str(DataRows[idx[k]][3])
              /\ exact(SecondsOf(DataRows[idx[k]][1]))
                    => IsInstant(Col(pl_popcon, Atime)[k], SecondsOf(DataRows[idx[k]][1]))
              /\ exact(SecondsOf(DataRows[idx[k]][2]))
                    => IsInstant(Col(pl_popcon, Ctime)[k], SecondsOf(DataRows[idx[k]][2]))

TimeColumns == {<<Atime, 1>>, <<Ctime, 2>>}

\* C9: slicing the full read with [:-1] and reading n_rows = nr_rows - 1
\* rows give the same frame: every line of the file but the last, in file
\* order.
C9_TwoReadsAgree ==
    pc8 = "nrows" =>
        /\ pl_popcon = pl_popcon_sliced
        /\ Len(pl_popcon) = Len(HeaderColumns)
        /\ \A c \in 1..Len(pl_popcon) :
              /\ Len(pl_popcon[c].vals) = Len(DataRows)
              /\ \A r \in 1..Len(DataRows) :
                    pl_popcon[c].vals[r] =
                        IF DataRows[r][c] = <<>> THEN Null ELSE Str(DataRows[r][c])

\* both reads returned two different lines in file order
C9_Witness ==
    /\ pc8 = "nrows"
    /\ Len(DataRows) >= 2
    /\ DataRows[1] # DataRows[2]
    /\ pl_popcon_sliced[1].vals[1] = Str(DataRows[1][1])

\* C10 as stated: for every integer seconds value s of atime and ctime the
\* product with 1000 does not overflow and the datetime is the instant s
\* seconds after the epoch, the mapping preserves order, and the filter
\* keeps exactly the rows with s > 0, in their order.
C10_EverySecondsValue ==
    /\ pc8 = "datetimes" =>
          /\ \A r \in 1..Len(DataRows) : \A tc \in TimeColumns :
                IsInstant(Col(pl_popcon, tc[1])[r], SecondsOf(DataRows[r][tc[2]]))
          /\ \A r1, r2 \in 1..Len(DataRows) : \A tc \in TimeColumns :
                Less(SecondsOf(DataRows[r1][tc[2]]), SecondsOf(DataRows[r2][tc[2]]))
                   => Less(Col(pl_popcon, tc[1])[r1].s.ms, Col(pl_popcon, tc[1])[r2].s.ms)
    /\ pc8 = "filtered" =>
          HoldsRows([r \in 1..Len(DataRows) |-> Less(ZeroInt, SecondsOf(DataRows[r][1]))],
                    LAMBDA s : TRUE)

\* C10 amended: the same for every s with
\* -9223372036854775 <= s <= 9223372036854775; the filter removes every
\* such row with s <= 0 and keeps every such row with s > 0, and the rows it
\* keeps are in their original order.
C10_SafeSecondsValue ==
    /\ pc8 = "datetimes" =>
          /\ \A r \in 1..Len(DataRows) : \A tc \in TimeColumns :
                Safe(SecondsOf(DataRows[r][tc[2]]))
                   => IsInstant(Col(pl_popcon, tc[1])[r], SecondsOf(DataRows[r][tc[2]]))
          /\ \A r1, r2 \in 1..Len(DataRows) : \A tc \in TimeColumns :
                (/\ Safe(SecondsOf(DataRows[r1][tc[2]]))
                 /\ Safe(SecondsOf(DataRows[r2][tc[2]]))
                 /\ Less(SecondsOf(DataRows[r1][tc[2]]), SecondsOf(DataRows[r2][tc[2]])))
                   => Less(Col(pl_popcon, tc[1])[r1].s.ms, Col(pl_popcon, tc[1])[r2].s.ms)
    /\ pc8 = "filtered" =>
          \E keep \in [1..Len(DataRows) -> BOOLEAN] :
              /\ \A r \in 1..Len(DataRows) :
                    Safe(SecondsOf(DataRows[r][1]))
                       => (keep[r] <=> Less(ZeroInt, SecondsOf(DataRows[r][1])))
              /\ HoldsRows(keep, Safe)

\* a row with timestamp 0 was removed and a row with a real timestamp kept
C10_Witness ==
    /\ pc8 = "filtered"
    /\ Len(DataRows) = 2
    /\ SecondsOf(DataRows[1][1]) = ZeroInt
    /\ Less(ZeroInt, SecondsOf(DataRows[2][1]))
    /\ Safe(SecondsOf(DataRows[2][1]))
    /\ Height(pl_popcon) = 1
    /\ IsInstant(Col(pl_popcon, Atime)[1], SecondsOf(DataRows[2][1]))

\* ---------------------------------------------------------------- files
\* Every chapter as the sequence of its calls that touch a file or the
\* network, in script order, each with the line of the call.
Chapters == {1, 2, 3, 5, 6, 7, 8}

BIKES == "../data/bikes.csv"
REQUESTS == "../data/311-service-requests.csv"
WEATHER_2012 == "../data/weather_2012.csv"
PL_WEATHER_2012 == "../data/pl_weather_2012.csv"
POPCON == "../data/popularity-contest"
URL == "http://climate.weather.gc.ca/climate_data/bulk_data_e.html"

Files == {BIKES, REQUESTS, WEATHER_2012, PL_WEATHER_2012, POPCON}

ReadOp(file, line) == [op |-> "read", file |-> file, line |-> line]
GetOp(line) == [op |-> "get", file |-> URL, line |-> line]
WriteOp(file, line) == [op |-> "write", file |-> file, line |-> line]
ConcatOp(line) == [op |-> "concat", file |-> "", line |-> line]

\* chapter 8 with the DATA_PATH of chapter 6 copied (a faulty variant of DataPath)
DataPathCopied(chapter) ==
    CASE chapter = 1 -> BIKES
      [] chapter \in {2, 3, 7} -> REQUESTS
      [] chapter \in {5, 6, 8} -> WEATHER_2012

\* the file a chapter reads: its DATA_PATH and the same literal in its
\* pandas calls
DataPath(chapter) ==
    CASE chapter = 1 -> BIKES
      [] chapter \in {2, 3, 7} -> REQUESTS
      [] chapter \in {5, 6} -> WEATHER_2012
      [] chapter = 8 -> POPCON

\* [download_weather_month(2012, i) for i in range(1, 13)]
YearOfDownloads(line) == [i \in 1..12 |-> GetOp(line)]

ReadsAt(chapter, lines) == [k \in 1..Len(lines) |-> ReadOp(DataPath(chapter), lines[k])]

\* chapter 6 saving its frame over weather_2012.csv (a faulty variant of Script)
ScriptSavingSnow(chapter) ==
    CASE chapter = 1 -> ReadsAt(1, <<15, 18, 34, 45>>)
      [] chapter = 2 -> ReadsAt(2, <<10, 18>>)
      [] chapter = 3 -> ReadsAt(3, <<20, 24>>)
      [] chapter = 5 ->
            ReadsAt(5, <<18, 23>>)
              \o <<GetOp(39), GetOp(49), GetOp(252)>>
              \o YearOfDownloads(256) \o <<ConcatOp(257)>>
              \o YearOfDownloads(261) \o <<ConcatOp(262)>>
              \o <<WriteOp(WEATHER_2012, 267), WriteOp(PL_WEATHER_2012, 270)>>
      [] chapter = 6 -> ReadsAt(6, <<15, 21>>) \o <<WriteOp(WEATHER_2012, 38)>>
      [] chapter = 7 -> ReadsAt(7, <<18, 22, 54, 60, 165, 193>>)
      [] chapter = 8 -> ReadsAt(8, <<13, 21, 24, 29>>)

\* the file operations of a chapter, in the order the script runs them
Script(chapter) ==
    CASE chapter = 1 -> ReadsAt(1, <<15, 18, 34, 45>>)
      [] chapter = 2 -> ReadsAt(2, <<10, 18>>)
      [] chapter = 3 -> ReadsAt(3, <<20, 24>>)
      [] chapter = 5 ->
            ReadsAt(5, <<18, 23>>)
              \o <<GetOp(39), GetOp(49), GetOp(252)>>
              \o YearOfDownloads(256) \o <<ConcatOp(257)>>
              \o YearOfDownloads(261) \o <<ConcatOp(262)>>
              \o <<WriteOp(WEATHER_2012, 267), WriteOp(PL_WEATHER_2012, 270)>>
      [] chapter = 6 -> ReadsAt(6, <<15, 21>>)
      [] chapter = 7 -> ReadsAt(7, <<18, 22, 54, 60, 165, 193>>)
      [] chapter = 8 -> ReadsAt(8, <<13, 21, 24, 29>>)

\* what a file holds: the content the repository ships, nothing, or what a
\* call of a run wrote
Shipped == [by |-> "shipped", line |-> 0]
Absent == [by |-> "absent", line |-> 0]
WrittenAt(line) == [by |-> "written", line |-> line]

NextOp == Script(running)[ip]

\* the latest run: nothing ran yet, a call returned, a call raised
NoRun == [chapter |-> 0, returned |-> {}, raised |-> 0]
Returned(r, k) == [r EXCEPT !.returned = @ \cup {k}]
RaisedAt(r, k) == [r EXCEPT !.raised = k]

FilesInit ==
    /\ fs = [f \in Files |-> IF f = PL_WEATHER_2012 THEN Absent ELSE Shipped]
    /\ running = 0
    /\ ip = 0
    /\ reads = {}
    /\ writes = {}
    /\ run = NoRun
    /\ ZipIdle
    /\ WeatherIdle
    /\ PopconIdle
    /\ NoiseIdle

\* a chapter is run from its top; chapters run one at a time, in any order,
\* any number of times
StartChapter ==
    /\ running = 0
    /\ \E c \in Chapters :
          /\ running' = c
          /\ run' = [chapter |-> c, returned |-> {}, raised |-> 0]
    /\ ip' = 1
    /\ UNCHANGED <<fs, reads, writes, notFiles>>

\* read_csv / scan_csv of a file; a file that is not there raises and the
\* run stops
StepRead ==
    /\ running # 0
    /\ ip <= Len(Script(running))
    /\ NextOp.op = "read"
    /\ IF fs[NextOp.file] = Absent
       THEN /\ running' = 0
            /\ ip' = 0
            /\ run' = RaisedAt(run, ip)
            /\ UNCHANGED reads
       ELSE /\ reads' = reads \cup {[chapter |-> running, file |-> NextOp.file,
                                     content |-> fs[NextOp.file]]}
            /\ ip' = ip + 1
            /\ run' = Returned(run, ip)
            /\ UNCHANGED running
    /\ UNCHANGED <<fs, writes, notFiles>>

\* read_csv of the URL answers and the cleaning returns
StepGet ==
    /\ running # 0
    /\ ip <= Len(Script(running))
    /\ NextOp.op = "get"
    /\ ip' = ip + 1
    /\ run' = Returned(run, ip)
    /\ UNCHANGED <<fs, running, reads, writes, notFiles>>

\* an except clause around the download that goes on with the next call (a
\* faulty variant of GetRaises)
GetRaisesCaught ==
    /\ running # 0
    /\ ip <= Len(Script(running))
    /\ NextOp.op = "get"
    /\ ip' = ip + 1
    /\ run' = RaisedAt(run, ip)
    /\ UNCHANGED <<fs, running, reads, writes, notFiles>>

\* read_csv of the URL, or the cleaning of what it returned, raises:
\* nothing catches it and the run stops
GetRaises ==
    /\ running # 0
    /\ ip <= Len(Script(running))
    /\ NextOp.op = "get"
    /\ running' = 0
    /\ ip' = 0
    /\ run' = RaisedAt(run, ip)
    /\ UNCHANGED <<fs, reads, writes, notFiles>>

\* pd.concat / pl.concat of the twelve months returns
StepConcat ==
    /\ running # 0
    /\ ip <= Len(Script(running))
    /\ NextOp.op = "concat"
    /\ ip' = ip + 1
    /\ run' = Returned(run, ip)
    /\ UNCHANGED <<fs, running, reads, writes, notFiles>>

\* the concat raises (the months do not have the same columns): nothing
\* catches it and the run stops
ConcatRaises ==
    /\ running # 0
    /\ ip <= Len(Script(running))
    /\ NextOp.op = "concat"
    /\ running' = 0
    /\ ip' = 0
    /\ run' = RaisedAt(run, ip)
    /\ UNCHANGED <<fs, reads, writes, notFiles>>

\* to_csv / write_csv
StepWrite ==
    /\ running # 0
    /\ ip <= Len(Script(running))
    /\ NextOp.op = "write"
    /\ fs' = [fs EXCEPT ![NextOp.file] = WrittenAt(NextOp.line)]
    /\ writes' = writes \cup {[chapter |-> running, file |-> NextOp.file,
                               line |-> NextOp.line, at |-> ip]}
    /\ ip' = ip + 1
    /\ run' = Returned(run, ip)
    /\ UNCHANGED <<running, reads, notFiles>>

\* the script ran to its end
FinishChapter ==
    /\ running # 0
    /\ ip > Len(Script(running))
    /\ running' = 0
    /\ ip' = 0
    /\ UNCHANGED <<fs, reads, writes, run, notFiles>>

FilesNext ==
    \/ StartChapter
    \/ StepRead
    \/ StepGet
    \/ GetRaises
    \/ StepConcat
    \/ ConcatRaises
    \/ StepWrite
    \/ FinishChapter

SpecFiles == FilesInit /\ [][FilesNext]_vars

\* ---------------------------------------------------------------- file claims
WrittenFiles == {w.file : w \in writes}

\* every write is logged: a file differs from what the repository ships
\* only if a write call wrote it
OnlyWritesChangeFiles ==
    \A f \in Files :
        fs[f] \notin {Shipped, Absent} => \E w \in writes : w.file = f /\ fs[f] = WrittenAt(w.line)

\* C7 as stated: the only file output is one CSV file, written as the last
\* step of chapter 5; every other step only reads.
C7_OneFileWritten ==
    /\ Cardinality(WrittenFiles) <= 1
    /\ \A w \in writes : w.chapter = 5
    /\ OnlyWritesChangeFiles

\* C7 amended: the only file outputs are two CSV files, weather_2012.csv
\* (pandas, line 267) and pl_weather_2012.csv (polars, line 270), written by
\* the last two calls of chapter 5; every other step only reads.
C7_TwoFilesWrittenLast ==
    /\ \A w \in writes :
          /\ w.chapter = 5
          /\ w.at >= Len(Script(5)) - 1
          /\ <<w.file, w.line>> \in {<<WEATHER_2012, 267>>, <<PL_WEATHER_2012, 270>>}
    /\ OnlyWritesChangeFiles
    /\ \A f \in Files \ {WEATHER_2012, PL_WEATHER_2012} : fs[f] = Shipped

\* a run of chapter 5 got to its end and wrote both files
C7_Witness ==
    /\ Cardinality(WrittenFiles) = 2
    /\ fs[WEATHER_2012] = WrittenAt(267)
    /\ fs[PL_WEATHER_2012] = WrittenAt(270)

\* C8 as stated: no chapter reads a file that a chapter wrote, so in any
\* order of runs every read sees what the repository ships.
C8_ReadsOnlyShipped ==
    \A r \in reads : r.content = Shipped

\* C8 amended: chapters 1, 2, 3, 7 and 8 read only files no chapter writes;
\* chapters 5 and 6 read weather_2012.csv, which the pandas to_csv of
\* chapter 5 overwrites, so after a complete run of chapter 5 they read what
\* that run wrote; pl_weather_2012.csv is never read.
C8_OnlyWeatherDependsOnOrder ==
    \A r \in reads :
        /\ r.file # PL_WEATHER_2012
        /\ r.chapter \in {1, 2, 3, 7, 8} => r.content = Shipped
        /\ r.content # Shipped =>
              /\ r.chapter \in {5, 6}
              /\ r.file = WEATHER_2012
              /\ r.content = WrittenAt(267)

\* chapter 6 read the file a run of chapter 5 wrote, chapter 8 the shipped one
C8_Witness ==
    /\ \E r \in reads : r.chapter = 6 /\ r.content = WrittenAt(267)
    /\ \E r \in reads : r.chapter = 5 /\ r.content = WrittenAt(267)
    /\ \E r \in reads : r.chapter = 8 /\ r.content = Shipped

\* the calls of chapter 5 that download and clean one month of the year
MonthlyDownloads == {k \in 1..Len(Script(5)) : Script(5)[k].line \in {256, 261}}

\* the calls of chapter 5 that make a year: the downloads and the two concats
YearCalls == {k \in 1..Len(Script(5)) : Script(5)[k].line \in {256, 257, 261, 262}}

WritesOfRun == {k \in run.returned : Script(run.chapter)[k].op = "write"}

\* C11: no error is caught or recovered: a call that raises ends the run and
\* no later call of the script is made; in chapter 5, when one of the monthly
\* downloads of the year (or its cleaning) raises, no later month is
\* downloaded and neither CSV file is written by that run; a run writes only
\* after all twelve months of both lists returned and were concatenated.
C11_RaiseStopsRunBeforeWrites ==
    /\ run.raised # 0 =>
          /\ running = 0
          /\ \A k \in run.returned : k < run.raised
    /\ (run.chapter = 5 /\ run.raised \in MonthlyDownloads) =>
          /\ run.returned \cap MonthlyDownloads = {k \in MonthlyDownloads : k < run.raised}
          /\ WritesOfRun = {}
    /\ (run.chapter = 5 /\ WritesOfRun # {}) =>
          /\ YearCalls \subseteq run.returned
          /\ run.raised = 0

\* the seventh month of the polars list raised in a run of chapter 5: the
\* pandas year and six polars months were downloaded, nothing was written
C11_Witness ==
    /\ run.chapter = 5
    /\ run.raised \in MonthlyDownloads
    /\ Script(5)[run.raised].line = 261
    /\ Cardinality(run.returned \cap MonthlyDownloads) = 18
    /\ running = 0
    /\ fs[WEATHER_2012] = Shipped
    /\ fs[PL_WEATHER_2012] = Absent

\* ---------------------------------------------------------------- chapter 3
\* the "Complaint Type" and "Borough" fields a row of the file can hold; ""
\* is an empty field
ComplaintRows ==
    [type : {"Noise - Street/Sidewalk", "Illegal Parking", ""},
     borough : {"BROOKLYN", "QUEENS", ""}]

\* read_csv(..., dtype="unicode") and read_csv(..., infer_schema_length=0):
\* every column is a string column and an empty field is missing (NaN in
\* pandas, null in polars)
ReadComplaints(rows) ==
    LET field(s) == IF s = "" THEN Null ELSE Str(s)
    IN  << [name |-> "Complaint Type", vals |-> [r \in 1..Len(rows) |-> field(rows[r].type)]],
           [name |-> "Borough", vals |-> [r \in 1..Len(rows) |-> field(rows[r].borough)]],
           [name |-> "Created Date", vals |-> [r \in 1..Len(rows) |-> Str("10/31/2013")]],
           [name |-> "Descriptor", vals |-> [r \in 1..Len(rows) |-> Str("Loud Talking")]] >>

\* what a name is bound to: a pandas boolean Series or a polars expression
PandasMask(mask) == [lib |-> "pandas", mask |-> mask, expr |-> <<>>]
PolarsExpr(col, lit) == [lib |-> "polars", mask |-> <<>>, expr |-> <<col, lit>>]

\* Series == literal in pandas: a missing value compares false
PdEqLit(vals, lit) ==
    [r \in 1..Len(vals) |-> (~vals[r].null) /\ vals[r].s = lit]

\* Expr & Expr: false wins over null
AndKleene(a, b) ==
    [r \in 1..Len(a) |->
        IF (~a[r].null) /\ ~a[r].s THEN Bool(FALSE)
        ELSE IF (~b[r].null) /\ ~b[r].s THEN Bool(FALSE)
        ELSE IF a[r].null \/ b[r].null THEN Null
        ELSE Bool(TRUE)]

\* a polars expression col == lit evaluated on a frame
EvalExpr(data, e) == EqLit(Col(data, e[1]), e[2])

\* data.select(columns); <<>> stands for no select
Select(data, columns) ==
    IF columns = <<>> THEN data
    ELSE [k \in 1..Len(columns) |->
            [name |-> columns[k], vals |-> Col(data, columns[k])]]

\* data[:n] / data.head(n); 0 stands for no head
FirstRows(data, n) ==
    IF n = 0 THEN data
    ELSE [c \in 1..Len(data) |->
            [name |-> data[c].name,
             vals |-> SubSeq(data[c].vals, 1, Min(n, Len(data[c].vals)))]]

ReadStmt(line, lib) ==
    [line |-> line, op |-> "read", lib |-> lib, name |-> "", col |-> "", lit |-> "",
     names |-> {}, columns |-> <<>>, head |-> 0]
BindStmt(line, lib, name, col, lit) ==
    [line |-> line, op |-> "bind", lib |-> lib, name |-> name, col |-> col, lit |-> lit,
     names |-> {}, columns |-> <<>>, head |-> 0]
UseStmt(line, lib, names, columns, head) ==
    [line |-> line, op |-> "use", lib |-> lib, name |-> "", col |-> "", lit |-> "",
     names |-> names, columns |-> columns, head |-> head]

FewColumns == <<"Complaint Type", "Borough", "Created Date", "Descriptor">>

\* the statements of chapter 3 that read the file and that bind or use
\* is_noise and in_brooklyn, top to bottom
Chapter3 ==
    << ReadStmt(20, "pandas"),
       ReadStmt(24, "polars"),
       BindStmt(46, "pandas", "is_noise", "Complaint Type", "Noise - Street/Sidewalk"),
       BindStmt(47, "pandas", "in_brooklyn", "Borough", "BROOKLYN"),
       UseStmt(48, "pandas", {"is_noise", "in_brooklyn"}, <<>>, 5),
       BindStmt(53, "polars", "is_noise", "Complaint Type", "Noise - Street/Sidewalk"),
       BindStmt(54, "polars", "in_brooklyn", "Borough", "BROOKLYN"),
       UseStmt(55, "polars", {"is_noise", "in_brooklyn"}, <<>>, 5),
       UseStmt(59, "pandas", {"is_noise", "in_brooklyn"}, FewColumns, 10),
       UseStmt(65, "polars", {"is_noise", "in_brooklyn"}, FewColumns, 5),
       BindStmt(71, "pandas", "is_noise", "Complaint Type", "Noise - Street/Sidewalk"),
       UseStmt(72, "pandas", {"is_noise"}, <<>>, 0),
       UseStmt(77, "polars", {"is_noise"}, <<>>, 0) >>

Stmt == Chapter3[pc3]

Binding(name) == IF name = "is_noise" THEN is_noise ELSE in_brooklyn

\* the libraries of the bindings a statement uses
LibsUsed(stmt) == {Binding(n).lib : n \in stmt.names}

\* is_noise & in_brooklyn, or is_noise alone, of two pandas Series
PandasCondition(names) ==
    [r \in 1..Len(is_noise.mask) |->
        \A n \in names : Binding(n).mask[r]]

\* is_noise & in_brooklyn, or is_noise alone, of two polars expressions
PolarsCondition(names) ==
    IF names = {"is_noise"}
    THEN EvalExpr(pl_complaints, is_noise.expr)
    ELSE AndKleene(EvalExpr(pl_complaints, is_noise.expr),
                   EvalExpr(pl_complaints, in_brooklyn.expr))

\* a pandas mask handed to DataFrame.filter, where polars takes it as a mask
MaskAsColumn(mask) == [r \in 1..Len(mask) |-> Bool(mask[r])]

NoiseInit ==
    /\ csv_complaints \in SeqsUpTo(ComplaintRows, MaxRows)
    /\ complaints = NoFrame
    /\ pl_complaints = NoFrame
    /\ is_noise = Unbound
    /\ in_brooklyn = Unbound
    /\ selected = Raised
    /\ uses = {}
    /\ pc3 = 1
    /\ ZipIdle
    /\ WeatherIdle
    /\ PopconIdle
    /\ FilesIdle

\* complaints = pd.read_csv("../data/311-service-requests.csv", dtype="unicode")
ReadPandas ==
    /\ pc3 \in 1..Len(Chapter3)
    /\ Stmt.op = "read"
    /\ Stmt.lib = "pandas"
    /\ complaints' = ReadComplaints(csv_complaints)
    /\ pc3' = pc3 + 1
    /\ UNCHANGED <<csv_complaints, pl_complaints, is_noise, in_brooklyn, selected, uses, notNoise>>

\* pl_complaints = pl.read_csv(DATA_PATH, infer_schema_length=0)
ReadPolars ==
    /\ pc3 \in 1..Len(Chapter3)
    /\ Stmt.op = "read"
    /\ Stmt.lib = "polars"
    /\ pl_complaints' = ReadComplaints(csv_complaints)
    /\ pc3' = pc3 + 1
    /\ UNCHANGED <<csv_complaints, complaints, is_noise, in_brooklyn, selected, uses, notNoise>>

\* name = complaints[col] == lit
BindPandas ==
    /\ pc3 \in 1..Len(Chapter3)
    /\ Stmt.op = "bind"
    /\ Stmt.lib = "pandas"
    /\ LET b == PandasMask(PdEqLit(Col(complaints, Stmt.col), Stmt.lit))
       IN  IF Stmt.name = "is_noise"
           THEN is_noise' = b /\ UNCHANGED in_brooklyn
           ELSE in_brooklyn' = b /\ UNCHANGED is_noise
    /\ pc3' = pc3 + 1
    /\ UNCHANGED <<csv_complaints, complaints, pl_complaints, selected, uses, notNoise>>

\* name = pl.col(col) == lit
BindPolars ==
    /\ pc3 \in 1..Len(Chapter3)
    /\ Stmt.op = "bind"
    /\ Stmt.lib = "polars"
    /\ LET b == PolarsExpr(Stmt.col, Stmt.lit)
       IN  IF Stmt.name = "is_noise"
           THEN is_noise' = b /\ UNCHANGED in_brooklyn
           ELSE in_brooklyn' = b /\ UNCHANGED is_noise
    /\ pc3' = pc3 + 1
    /\ UNCHANGED <<csv_complaints, complaints, pl_complaints, selected, uses, notNoise>>

\* complaints[condition][columns][:n]: with boolean Series the rows where
\* the condition is true; a polars expression is no key of a pandas frame,
\* the indexing raises and the run stops
IndexPandas ==
    /\ pc3 \in 1..Len(Chapter3)
    /\ Stmt.op = "use"
    /\ Stmt.lib = "pandas"
    /\ uses' = uses \cup {[line |-> Stmt.line, lib |-> Stmt.lib, bound |-> LibsUsed(Stmt)]}
    /\ IF LibsUsed(Stmt) = {"pandas"}
       THEN /\ selected' = Ok(FirstRows(Select(KeepRows(complaints, PandasCondition(Stmt.names)),
                                          Stmt.columns), Stmt.head))
            /\ pc3' = pc3 + 1
       ELSE /\ selected' = Raised
            /\ pc3' = 0
    /\ UNCHANGED <<csv_complaints, complaints, pl_complaints, is_noise, in_brooklyn, notNoise>>

\* pl_complaints.filter(condition).select(columns).head(n): with expressions
\* the rows where the condition is true; with a pandas Series the outcome
\* depends on the polars installed (no version is pinned): the filter takes
\* it as a mask or raises
FilterPolars ==
    /\ pc3 \in 1..Len(Chapter3)
    /\ Stmt.op = "use"
    /\ Stmt.lib = "polars"
    /\ uses' = uses \cup {[line |-> Stmt.line, lib |-> Stmt.lib, bound |-> LibsUsed(Stmt)]}
    /\ IF LibsUsed(Stmt) = {"polars"}
       THEN /\ selected' = Ok(FirstRows(Select(Filter(pl_complaints, PolarsCondition(Stmt.names)),
                                          Stmt.columns), Stmt.head))
            /\ pc3' = pc3 + 1
       ELSE \/ /\ LibsUsed(Stmt) = {"pandas"}
               /\ selected' = Ok(FirstRows(Select(Filter(pl_complaints,
                                                    MaskAsColumn(PandasCondition(Stmt.names))),
                                             Stmt.columns), Stmt.head))
               /\ pc3' = pc3 + 1
            \/ /\ selected' = Raised
               /\ pc3' = 0
    /\ UNCHANGED <<csv_complaints, complaints, pl_complaints, is_noise, in_brooklyn, notNoise>>

NoiseNext ==
    \/ ReadPandas
    \/ ReadPolars
    \/ BindPandas
    \/ BindPolars
    \/ IndexPandas
    \/ FilterPolars

SpecNoise == NoiseInit /\ [][NoiseNext]_vars

\* ---------------------------------------------------------------- chapter 3 claims
\* C12: under top-to-bottom execution of chapter 3, at every use of is_noise
\* and in_brooklyn the binding matches the library that uses it: pandas
\* indexing sees pandas masks, polars filter sees polars expressions.
C12_BindingsMatchLibrary ==
    \A u \in uses : u.bound = {u.lib}

====
